---- MODULE Spec2Model ----
(***************************************************************************)
(* Model of the ProcessManager class of process-manager-mcp               *)
(* (process-manager.ts): the persisted registry shared by all supervisor   *)
(* instances, the in-memory handle table of each instance, the OS process  *)
(* table, and the operations startProcess, endProcess, checkProcessHealth, *)
(* cleanup, the constructor's cleanupStaleAutoShutdownProcesses, and the   *)
(* "exit" / promise-rejection callbacks registered by startProcess.        *)
(***************************************************************************)
EXTENDS Integers, Sequences, FiniteSets, TLC

\* ---------------------------------------------------------------- bounds
\* number of OS processes spawned in one behaviour
MaxProcs == 2
\* pids are 1..MaxPid, so the pid of an ended process can be reused
MaxPid == 2
\* Date.now() takes the values 0..MaxClock
MaxClock == 1

\* directory paths of the listing are strings of at most MaxPathLen characters
MaxPathLen == 4
\* number of partitions of the registry that the listing is run on
MaxPartitions == 2
\* checkProcessHealth calls of one instance that may be in progress at once
MaxScans == 2

\* a log file has at most MaxLogLen characters
MaxLogLen == 4
\* tailLength of getProcessLogs is 0..MaxTail
MaxTail == 2

\* supervisor instances sharing the registry
Insts == {1, 2}
\* Spec: one supervisor at a time, restarted after a crash
Solo == {1}
Pids == 1..MaxPid
Dirs == {"/a", "/b"}
Commands == {"sleep"}
ExitCodes == {0, 1}

\* code === null in the "exit" event: the child was ended by a signal
NullCode == -1
\* Date.now() is an epoch in milliseconds, far above every pid; log file
\* names built from a timestamp and from a pid share one name space
TimeBase == 100

NoHandle == 0
\* childProcess.pid of a child that could not be spawned (undefined)
NoPid == 0

VARIABLES
    config,      \* Conf store: [Dirs -> [processKey -> ProcessData]]
    running,     \* runningProcesses of each instance: pid -> handle (0 = none)
    up,          \* the instance has been constructed and its process lives
    currentCwd,  \* currentCwd of each instance
    monitoring,  \* monitoringInterval is set
    handlers,    \* the events cleanupHandler is registered for
    procs,       \* OS processes spawned so far, in spawn order
    now,         \* Date.now()
    cleanupRuns, \* runs of cleanup() started by cleanupHandler, per instance
    scans,       \* checkProcessHealth calls in progress: what each one read
    writes,      \* registry writes between their config.get and config.set
    lastOp       \* the operation performed by the last step, and its result

vars == <<config, running, up, currentCwd, monitoring, handlers, procs, now,
          cleanupRuns, scans, writes, lastOp>>

\* ------------------------------------------------------- registry helpers
Put(f, k, v) ==
    [x \in (DOMAIN f) \cup {k} |-> IF x = k THEN v ELSE f[x]]
Del(f, k) ==
    [x \in (DOMAIN f) \ {k} |-> f[x]]
EmptyPartition == [x \in {} |-> 0]

\* generateProcessKey: `${command}_${Date.now()}`
generateProcessKey(command, t) == <<command, t>>

\* getLogFilePath: process_<n>.log, n a pid or a timestamp
getLogFilePath(n) == n

\* mutant: the record is written only where the key already exists
storeProcessData_OnlyExisting(cfg, targetCwd, processKey, data) ==
    IF processKey \in DOMAIN cfg[targetCwd]
    THEN [cfg EXCEPT ![targetCwd] = Put(@, processKey, data)]
    ELSE cfg

\* storeProcessData(processKey, data) with cwd omitted: partition currentCwd
storeProcessData(cfg, targetCwd, processKey, data) ==
    [cfg EXCEPT ![targetCwd] = Put(@, processKey, data)]

\* updateProcessData: writes only if the key is still present
updateProcessData(cfg, targetCwd, processKey, data) ==
    IF processKey \in DOMAIN cfg[targetCwd]
    THEN [cfg EXCEPT ![targetCwd] = Put(@, processKey, data)]
    ELSE cfg

\* mutant: the key is deleted from every partition
removeProcessData_EveryPartition(cfg, targetCwd, processKey) ==
    [d \in DOMAIN cfg |-> Del(cfg[d], processKey)]

\* removeProcessData
removeProcessData(cfg, targetCwd, processKey) ==
    [cfg EXCEPT ![targetCwd] = Del(@, processKey)]

\* getCurrentCwdProcesses: List(currentOnly)
getCurrentCwdProcesses(i) == config[currentCwd[i]]

\* ------------------------------------------------------------ OS helpers
ProcIds == 1..Len(procs)

\* the live OS process holding a pid, as a set (empty or a singleton)
AliveAt(pid) == {p \in ProcIds : procs[p].pid = pid /\ procs[p].alive}

\* process.kill(pid, 0) does not throw
isAlive(pid) == AliveAt(pid) # {}

\* Every record of the registry, as <<dir, key>>
AllEntries == {e \in Dirs \X (Commands \X (0..MaxClock)) : e[2] \in DOMAIN config[e[1]]}
RecordOf(e) == config[e[1]][e[2]]

NoError == [kind |-> "none", code |-> 0, signal |-> FALSE]

\* lastOp: op names the step; ret / ok are what the operation returned,
\* dir / key the record it acted on, signalled the number of SIGTERMs it
\* delivered to each spawned process; cwd / envCwd the cwd argument and
\* process.env.CWD of a startProcess call ("" = not given), event the
\* termination event that started cleanup() ("" = a direct call), content /
\* tailLength the text getProcessLogs read and the tailLength it was given,
\* exists what existsSync(logFile) returned; raised: the operation threw;
\* attempts the number of kill calls made with SIGTERM, thrown how many of
\* them threw (and were caught)
NoOp(name) == [op |-> name, inst |-> 0, pid |-> 0, ret |-> 0, ok |-> FALSE,
               dir |-> "", key |-> <<>>, command |-> "", autoShutdown |-> FALSE,
               signalled |-> <<>>, cwd |-> "", envCwd |-> "", event |-> "",
               content |-> <<>>, tailLength |-> 0, exists |-> FALSE,
               raised |-> FALSE, attempts |-> 0, thrown |-> 0]

Init ==
    /\ config = [d \in Dirs |-> EmptyPartition]
    /\ running = [i \in Insts |-> [pid \in Pids |-> NoHandle]]
    /\ up = [i \in Insts |-> FALSE]
    /\ currentCwd = [i \in Insts |-> "/a"]
    /\ monitoring = [i \in Insts |-> FALSE]
    /\ handlers = [i \in Insts |-> {}]
    /\ procs = <<>>
    /\ now = 0
    /\ cleanupRuns = [i \in Insts |-> 0]
    /\ scans = [i \in Insts |-> <<>>]
    /\ writes = [i \in Insts |-> <<>>]
    /\ lastOp = NoOp("init")

\* Date.now() advances
Tick ==
    /\ now < MaxClock
    /\ now' = now + 1
    /\ lastOp' = NoOp("tick")
    /\ UNCHANGED <<config, running, up, currentCwd, monitoring, handlers, procs, cleanupRuns, scans, writes>>

\* ---------------------------------------------------------- constructor
\* process.on("SIGINT" | "SIGTERM" | "exit", cleanupHandler)
TerminationEvents == {"SIGINT", "SIGTERM", "exit"}

\* mutant: the autoShutdown test is missing
IsStaleAutoShutdown_AnyPolicy(data) ==
    ~isAlive(data.pid) \/ data.status # "running"

\* cleanupStaleAutoShutdownProcesses: the test that removes a record
IsStaleAutoShutdown(data) ==
    data.autoShutdown /\ (~isAlive(data.pid) \/ data.status # "running")

\* mutant: the constructor does not reconcile
cleanupStaleAutoShutdownProcesses_Skipped(cfg) == cfg

cleanupStaleAutoShutdownProcesses(cfg) ==
    [d \in Dirs |->
        [k \in {x \in DOMAIN cfg[d] : ~IsStaleAutoShutdown(cfg[d][x])} |-> cfg[d][k]]]

\* new ProcessManager(cwd): reconciliation, startMonitoring, signal handlers
Construct(i, d) ==
    /\ ~up[i]
    /\ \A j \in Insts : j < i => up[j]        \* slots name instances: lowest free slot
    /\ up' = [up EXCEPT ![i] = TRUE]
    /\ currentCwd' = [currentCwd EXCEPT ![i] = d]
    /\ running' = [running EXCEPT ![i] = [pid \in Pids |-> NoHandle]]
    /\ config' = cleanupStaleAutoShutdownProcesses(config)
    /\ monitoring' = [monitoring EXCEPT ![i] = TRUE]
    /\ handlers' = [handlers EXCEPT ![i] = TerminationEvents]
    /\ lastOp' = [NoOp("construct") EXCEPT !.inst = i, !.dir = d,
                     !.ret = Cardinality({e \in AllEntries : IsStaleAutoShutdown(RecordOf(e))})]
    /\ cleanupRuns' = [cleanupRuns EXCEPT ![i] = 0]
    /\ scans' = [scans EXCEPT ![i] = <<>>]
    /\ writes' = [writes EXCEPT ![i] = <<>>]
    /\ UNCHANGED <<procs, now>>

\* The supervisor's own OS process is gone: its handle table, timer,
\* listeners and callbacks are gone with it, its children live on as orphans.
ProcessEnds(i) ==
    /\ up' = [up EXCEPT ![i] = FALSE]
    /\ running' = [running EXCEPT ![i] = [pid \in Pids |-> NoHandle]]
    /\ monitoring' = [monitoring EXCEPT ![i] = FALSE]
    /\ handlers' = [handlers EXCEPT ![i] = {}]
    /\ currentCwd' = [currentCwd EXCEPT ![i] = "/a"]
    /\ procs' = [p \in ProcIds |->
                   IF procs[p].inst = i
                   THEN [procs[p] EXCEPT !.exitPending = FALSE, !.rejectPending = FALSE,
                                         !.inst = 0]
                   ELSE procs[p]]
    /\ scans' = [scans EXCEPT ![i] = <<>>]
    /\ writes' = [writes EXCEPT ![i] = <<>>]
    /\ UNCHANGED <<config, now, cleanupRuns>>

\* The supervisor's own OS process is ended abruptly (SIGKILL, crash): no
\* cleanup runs.
Crash(i) ==
    /\ up[i]
    /\ ProcessEnds(i)
    /\ lastOp' = [NoOp("crash") EXCEPT !.inst = i]

\* -------------------------------------------------------------- Start
\* the log file stored in the record: the pid's file for the ephemeral
\* branch, the file named after tempTimestamp for the persistent branch
actualLogFilePath(autoShutdown, pid, t) ==
    IF autoShutdown THEN getLogFilePath(pid) ELSE getLogFilePath(TimeBase + t)

NewProcessData(pid, command, workingDir, autoShutdown, p) ==
    [pid |-> pid, command |-> command, cwd |-> workingDir, status |-> "running",
     startTime |-> TimeBase + now, autoShutdown |-> autoShutdown,
     logFile |-> actualLogFilePath(autoShutdown, pid, now),
     errorOutput |-> NoError,
     proc |-> p]     \* proc: which spawned process the record was written for

\* The pid the OS gives a new process: the pid of a process that has ended
\* and has been reaped (reuse), or a pid never used before (pids differ
\* only by name, so the lowest one stands for all of them).  A child is
\* reaped when its parent handles its exit; an orphan, at once.
UsedPids == {procs[p].pid : p \in ProcIds}
SpawnPids ==
    {pid \in UsedPids :
        \A p \in ProcIds : procs[p].pid = pid => (~procs[p].alive /\ ~procs[p].exitPending)}
      \cup {pid \in Pids \ UsedPids : \A q \in Pids \ UsedPids : pid <= q}

\* path.resolve(baseCwd, cwd) for an absolute cwd
resolve(baseCwd, cwd) == cwd

\* mutant: the cwd argument is ignored
resolveWorkingDir_NoOverride(envCwd, cur, cwd) ==
    IF envCwd # "" THEN envCwd ELSE cur

\* startProcess: the directory the child runs in.  envCwd is
\* process.env.CWD, cwd the argument; "" stands for unset / not given.
resolveWorkingDir(envCwd, cur, cwd) ==
    LET baseCwd == IF envCwd # "" THEN envCwd ELSE cur
    IN IF cwd # "" THEN resolve(baseCwd, cwd) ELSE baseCwd

\* startProcess(command, autoShutdown, cwd) when execa returns a pid, up
\* to the call of storeProcessData
StartSpawn(i, command, autoShutdown, cwd, envCwd, pid) ==
    LET p == Len(procs) + 1
        processKey == generateProcessKey(command, now)
        workingDir == resolveWorkingDir(envCwd, currentCwd[i], cwd)
    IN
    /\ up[i]
    /\ Len(procs) < MaxProcs
    /\ pid \in SpawnPids
    /\ procs' = Append(procs,
                  [pid |-> pid, inst |-> i, key |-> processKey, autoShutdown |-> autoShutdown,
                   alive |-> TRUE, code |-> 0,
                   exitPending |-> FALSE, rejectPending |-> FALSE,
                   untracked |-> FALSE])
    /\ running' = [running EXCEPT ![i][pid] = p]
    /\ lastOp' = [NoOp("start") EXCEPT !.inst = i, !.pid = pid, !.ret = pid, !.ok = TRUE,
                     !.dir = currentCwd[i], !.key = processKey,
                     !.command = command, !.autoShutdown = autoShutdown,
                     !.cwd = cwd, !.envCwd = envCwd]
    /\ UNCHANGED <<up, currentCwd, monitoring, handlers, now, cleanupRuns, scans>>

\* startProcess(command, autoShutdown, cwd) when execa returns a pid; the
\* get and the set of storeProcessData follow each other at once
Start(i, command, autoShutdown, cwd, envCwd, pid) ==
    /\ StartSpawn(i, command, autoShutdown, cwd, envCwd, pid)
    /\ config' = storeProcessData(config, currentCwd[i], generateProcessKey(command, now),
                     NewProcessData(pid, command,
                                    resolveWorkingDir(envCwd, currentCwd[i], cwd),
                                    autoShutdown, Len(procs) + 1))
    /\ UNCHANGED writes

\* mutant: childProcess.pid is not tested
spawnFailed_NotTested(pid) == FALSE

\* startProcess: `if (!childProcess.pid) throw`, in both branches, before
\* runningProcesses.set and storeProcessData
spawnFailed(pid) == pid = NoPid

\* startProcess when execa returns a child without a pid: the test throws,
\* the statements after it (the handle, the record) are not reached
StartFailure(i, command, autoShutdown) ==
    LET pid == NoPid
        processKey == generateProcessKey(command, now)
        workingDir == resolveWorkingDir("", currentCwd[i], "")
    IN
    /\ up[i]
    /\ IF spawnFailed(pid)
       THEN /\ UNCHANGED <<config, running>>
            /\ lastOp' = [NoOp("start") EXCEPT !.inst = i, !.pid = pid, !.command = command,
                             !.autoShutdown = autoShutdown, !.raised = TRUE]
       ELSE /\ running' = [running EXCEPT ![i] = Put(@, pid, NoHandle)]
            /\ config' = storeProcessData(config, currentCwd[i], processKey,
                             NewProcessData(pid, command, workingDir, autoShutdown, 0))
            /\ lastOp' = [NoOp("start") EXCEPT !.inst = i, !.pid = pid, !.ret = pid,
                             !.ok = TRUE, !.dir = currentCwd[i], !.key = processKey,
                             !.command = command, !.autoShutdown = autoShutdown]
    /\ UNCHANGED <<up, currentCwd, monitoring, handlers, procs, now, cleanupRuns, scans, writes>>

\* ------------------------------------------------------ the OS process
\* The process ends with code c (NullCode: ended by a signal).  The
\* instance that spawned it, if it still runs, will handle the child's exit
\* (the "exit" listener is registered in the ephemeral branch only) and,
\* for c # 0, the rejection of the execa promise (childProcess.catch, both
\* branches).
Ended(proc, c) ==
    [proc EXCEPT !.alive = FALSE, !.code = c,
                 !.exitPending = (proc.inst # 0),
                 !.rejectPending = (c # 0 /\ proc.inst # 0)]

\* A spawned process ends: with an exit code, or by a signal
ProcDie(p, c) ==
    /\ procs[p].alive
    /\ procs' = [procs EXCEPT ![p] = Ended(@, c)]
    /\ lastOp' = NoOp("die")
    /\ UNCHANGED <<config, running, up, currentCwd, monitoring, handlers, now, cleanupRuns, scans, writes>>

\* mutant: the listener writes only to a record that is still Running
ExitStatus_OnlyIfRunning(data, code, signal) ==
    IF data.status # "running" THEN data
    ELSE IF code = 0
    THEN [data EXCEPT !.status = "stopped"]
    ELSE [data EXCEPT !.status = "crashed",
                      !.errorOutput = [kind |-> "exited", code |-> code, signal |-> signal]]

\* status and errorOutput written by the "exit" listener
ExitStatus(data, code, signal) ==
    IF code = 0
    THEN [data EXCEPT !.status = "stopped"]
    ELSE [data EXCEPT !.status = "crashed",
                      !.errorOutput = [kind |-> "exited", code |-> code, signal |-> signal]]

\* The instance handles the exit of its child.  For an ephemeral child
\* this runs childProcess.on("exit", (code, signal) => ...); a persistent
\* child has no listener.
ExitNotification(p) ==
    LET i == procs[p].inst
        processKey == procs[p].key
        partition == config[currentCwd[i]]
    IN
    /\ p \in ProcIds
    /\ ~procs[p].alive
    /\ procs[p].exitPending
    /\ i # 0 /\ up[i]
    /\ running' = IF procs[p].autoShutdown
                  THEN [running EXCEPT ![i][procs[p].pid] = NoHandle]
                  ELSE running
    /\ config' = IF procs[p].autoShutdown /\ processKey \in DOMAIN partition
                 THEN updateProcessData(config, currentCwd[i], processKey,
                          ExitStatus(partition[processKey], procs[p].code,
                                     procs[p].code = NullCode))
                 ELSE config
    /\ procs' = [procs EXCEPT ![p].exitPending = FALSE]
    /\ lastOp' = [NoOp("exit") EXCEPT !.inst = i, !.pid = procs[p].pid, !.ret = p]
    /\ UNCHANGED <<up, currentCwd, monitoring, handlers, now, cleanupRuns, scans, writes>>

\* mutant: the status === "running" test is missing
CatchStatus_NoGuard(data, code, signal) ==
    [data EXCEPT !.status = "crashed",
                 !.errorOutput = [kind |-> "failed", code |-> code, signal |-> signal]]

\* status written by the rejection handler
CatchStatus(data, code, signal) ==
    IF data.status = "running"
    THEN [data EXCEPT !.status = "crashed",
                      !.errorOutput = [kind |-> "failed", code |-> code, signal |-> signal]]
    ELSE data

\* childProcess.catch((error) => ...): execa rejects once the child has
\* ended with a nonzero code or by a signal, after the "exit" event
CatchRejection(p) ==
    LET i == procs[p].inst
        processKey == procs[p].key
        partition == config[currentCwd[i]]
    IN
    /\ p \in ProcIds
    /\ ~procs[p].alive
    /\ procs[p].rejectPending
    /\ ~procs[p].exitPending
    /\ i # 0 /\ up[i]
    /\ config' = IF processKey \in DOMAIN partition
                 THEN updateProcessData(config, currentCwd[i], processKey,
                          CatchStatus(partition[processKey], procs[p].code, procs[p].code = NullCode))
                 ELSE config
    /\ procs' = [procs EXCEPT ![p].rejectPending = FALSE]
    /\ lastOp' = [NoOp("catch") EXCEPT !.inst = i, !.pid = procs[p].pid, !.ret = p]
    /\ UNCHANGED <<running, up, currentCwd, monitoring, handlers, now, cleanupRuns, scans, writes>>

\* ---------------------------------------------------------- CheckHealth
\* mutant: the status === "running" test is missing
HealthFails_AnyStatus(data) == ~isAlive(data.pid)

\* a record whose status checkProcessHealth rewrites
HealthFails(data) == data.status = "running" /\ ~isAlive(data.pid)

\* checkProcessHealth(): called by the 5 s timer, and public
CheckHealth(i) ==
    LET processes == getCurrentCwdProcesses(i)
        failed == {k \in DOMAIN processes : HealthFails(processes[k])}
    IN
    /\ up[i]
    /\ config' = [config EXCEPT ![currentCwd[i]] =
                    [k \in DOMAIN processes |->
                        IF k \in failed
                        THEN [processes[k] EXCEPT !.status = "stopped"]
                        ELSE processes[k]]]
    /\ running' = [running EXCEPT ![i] =
                    [pid \in Pids |->
                        IF \E k \in failed : processes[k].pid = pid
                        THEN NoHandle ELSE running[i][pid]]]
    /\ lastOp' = [NoOp("health") EXCEPT !.inst = i]
    /\ UNCHANGED <<up, currentCwd, monitoring, handlers, procs, now, cleanupRuns, scans, writes>>

\* mutant: a callback starts while a scan is between its read and its writes
callbackMayStart_Always(i) == TRUE

\* The event loop of a supervisor starts a callback (a timer tick, a tool
\* call, a child's "exit" event) only when no other one is running, and
\* checkProcessHealth has no await: once started it runs to its end.
callbackMayStart(i) == scans[i] = <<>>

\* checkProcessHealth(), first statement: const processes =
\* this.getCurrentCwdProcesses()
HealthScanBegin(i) ==
    /\ up[i]
    /\ callbackMayStart(i)
    /\ Len(scans[i]) < MaxScans
    /\ scans' = [scans EXCEPT ![i] = Append(@, getCurrentCwdProcesses(i))]
    /\ lastOp' = [NoOp("scan") EXCEPT !.inst = i]
    /\ UNCHANGED <<config, running, up, currentCwd, monitoring, handlers, procs, now,
                   cleanupRuns, writes>>

\* checkProcessHealth(), the loop: each Running record read is probed and,
\* when the probe fails, written back as Stopped by updateProcessData (only
\* where the key is still present) and its handle is dropped
HealthScanEnd(i) ==
    LET processes == Head(scans[i])
        failed == {k \in DOMAIN processes : HealthFails(processes[k])}
        cwd == currentCwd[i]
    IN
    /\ up[i]
    /\ scans[i] # <<>>
    /\ config' = [config EXCEPT ![cwd] =
                    [k \in DOMAIN config[cwd] |->
                        IF k \in failed
                        THEN [processes[k] EXCEPT !.status = "stopped"]
                        ELSE config[cwd][k]]]
    /\ running' = [running EXCEPT ![i] =
                    [pid \in Pids |->
                        IF \E k \in failed : processes[k].pid = pid
                        THEN NoHandle ELSE running[i][pid]]]
    /\ scans' = [scans EXCEPT ![i] = Tail(@)]
    /\ lastOp' = [NoOp("health") EXCEPT !.inst = i]
    /\ UNCHANGED <<up, currentCwd, monitoring, handlers, procs, now, cleanupRuns, writes>>

\* ----------------------------------------------------------------- Stop
\* untracked: endProcess or cleanup() has deleted the record that was
\* written for the ephemeral process
Untrack(ps, removed) ==
    [p \in DOMAIN ps |->
        IF p \in removed /\ ps[p].autoShutdown
        THEN [ps[p] EXCEPT !.untracked = TRUE]
        ELSE ps[p]]

\* the processes a SIGTERM sent by instance i for a pid reaches: through
\* the handle if the pid is in runningProcesses, else by pid
KillTarget(i, pid) ==
    IF running[i][pid] # NoHandle
    THEN {h \in {running[i][pid]} : procs[h].alive}
    ELSE AliveAt(pid)

\* mutant: a stale record is reported as a failure
StopResult_KillOnly(killSuccess, processIsAlive) == killSuccess

\* endProcess: the value returned
StopResult(killSuccess, processIsAlive) == killSuccess \/ ~processIsAlive

\* mutant: the record is kept when the kill failed
StopRemoves_IfStopped(killSuccess, processIsAlive) == killSuccess \/ ~processIsAlive

\* endProcess: "Always remove from config"
StopRemoves(killSuccess, processIsAlive) == TRUE

\* mutant: the search ends on some record when none has the pid
FindByPid_OrAny(pid) ==
    IF \E e \in AllEntries : RecordOf(e).pid = pid
    THEN {e \in AllEntries : RecordOf(e).pid = pid}
    ELSE AllEntries

\* endProcess: the records the search over config.store can stop at.  A
\* partition is searched in insertion order, which is the order of the
\* timestamps in the keys; the order of the partitions is the order in
\* which they were first written, which the registry does not record.
FindByPid(pid) ==
    {e \in AllEntries :
        /\ RecordOf(e).pid = pid
        /\ \A k \in DOMAIN config[e[1]] :
              config[e[1]][k].pid = pid => e[2][2] <= k[2]}

\* endProcess(pid) when no record has the pid
StopNotFound(i, pid) ==
    /\ up[i]
    /\ FindByPid(pid) = {}
    /\ lastOp' = [NoOp("stop") EXCEPT !.inst = i, !.pid = pid, !.ok = FALSE]
    /\ UNCHANGED <<config, running, up, currentCwd, monitoring, handlers, procs, now, cleanupRuns, scans, writes>>

\* mutant: the kill is attempted whatever the probe found
StopKills_Unprobed(processIsAlive) == TRUE

\* endProcess: `if (processIsAlive)` around the one kill call
StopKills(processIsAlive) == processIsAlive

\* What process.kill(pid, "SIGTERM") does after the probe found the pid
\* alive: "ok"; "esrch0" / "esrch1": the process ended in between, with code
\* 0 / 1, and the call throws; "eperm": the OS refuses, the call throws.
KillOutcomes == {"ok", "esrch0", "esrch1", "eperm"}

\* endProcess(pid) when a record has the pid, up to the call of
\* removeProcessData; e is the record the search stops at.
\* runningProcess.kill does not throw.
StopKill(i, pid, e, outcome) ==
    LET processIsAlive == isAlive(pid)
        viaHandle == running[i][pid] # NoHandle
        killSuccess == processIsAlive /\ (viaHandle \/ outcome = "ok")
        targets == IF StopKills(processIsAlive) /\ outcome = "ok"
                   THEN KillTarget(i, pid) ELSE {}
    IN
    /\ up[i]
    /\ e \in FindByPid(pid)
    /\ outcome # "ok" => (processIsAlive /\ ~viaHandle)
    /\ procs' = Untrack(IF outcome \in {"esrch0", "esrch1"}
                        THEN [p \in ProcIds |->
                                IF p \in AliveAt(pid)
                                THEN Ended(procs[p], IF outcome = "esrch0" THEN 0 ELSE 1)
                                ELSE procs[p]]
                        ELSE procs,
                        IF StopRemoves(killSuccess, processIsAlive)
                        THEN {RecordOf(e).proc} ELSE {})
    /\ running' = IF processIsAlive /\ viaHandle
                  THEN [running EXCEPT ![i][pid] = NoHandle]
                  ELSE running
    /\ lastOp' = [NoOp("stop") EXCEPT !.inst = i, !.pid = pid,
                     !.ok = StopResult(killSuccess, processIsAlive),
                     !.dir = e[1], !.key = e[2],
                     !.attempts = IF StopKills(processIsAlive) THEN 1 ELSE 0,
                     !.thrown = IF outcome # "ok" THEN 1 ELSE 0,
                     !.signalled = [p \in ProcIds |-> IF p \in targets THEN 1 ELSE 0]]
    /\ UNCHANGED <<up, currentCwd, monitoring, handlers, now, cleanupRuns, scans>>

\* endProcess(pid) when a record has the pid; the get and the set of
\* removeProcessData follow each other at once
Stop(i, pid, e, outcome) ==
    LET processIsAlive == isAlive(pid)
        killSuccess == processIsAlive /\ (running[i][pid] # NoHandle \/ outcome = "ok")
    IN
    /\ StopKill(i, pid, e, outcome)
    /\ config' = IF StopRemoves(killSuccess, processIsAlive)
                 THEN removeProcessData(config, e[1], e[2])
                 ELSE config
    /\ UNCHANGED writes

\* ------------------------------------------- registry writes in two steps
\* storeProcessData / removeProcessData read the partition with config.get,
\* change the object read and write it back with config.set.  Conf keeps
\* the registry in one file and takes no lock: between the two calls of one
\* supervisor another supervisor (another OS process) may write.
PendingWrite(kind, targetCwd, processKey, data) ==
    [kind |-> kind, cwd |-> targetCwd, key |-> processKey, data |-> data,
     read |-> config[targetCwd]]

\* startProcess up to the config.get of storeProcessData
StartBegin(i, command, autoShutdown, pid) ==
    /\ writes[i] = <<>>
    /\ StartSpawn(i, command, autoShutdown, "", "", pid)
    /\ writes' = [writes EXCEPT ![i] =
                    <<PendingWrite("store", currentCwd[i], generateProcessKey(command, now),
                         NewProcessData(pid, command, currentCwd[i], autoShutdown,
                                        Len(procs) + 1))>>]
    /\ UNCHANGED config

\* endProcess up to the config.get of removeProcessData
StopBegin(i, pid, e) ==
    /\ writes[i] = <<>>
    /\ StopKill(i, pid, e, "ok")
    /\ writes' = [writes EXCEPT ![i] =
                    <<PendingWrite("remove", e[1], e[2], RecordOf(e))>>]
    /\ UNCHANGED config

\* the config.set of storeProcessData / removeProcessData: the partition
\* becomes the object that was read, with the one key set or deleted
EndWrite(i) ==
    /\ up[i]
    /\ writes[i] # <<>>
    /\ LET w == Head(writes[i])
       IN /\ config' = [config EXCEPT ![w.cwd] =
                            IF w.kind = "store" THEN Put(w.read, w.key, w.data)
                            ELSE Del(w.read, w.key)]
          /\ lastOp' = [NoOp("write") EXCEPT !.inst = i, !.dir = w.cwd, !.key = w.key,
                           !.command = w.kind]
    /\ writes' = [writes EXCEPT ![i] = Tail(@)]
    /\ UNCHANGED <<running, up, currentCwd, monitoring, handlers, procs, now, cleanupRuns,
                   scans>>

\* -------------------------------------------------------------- Cleanup
\* mutant: the record is removed only after a kill that did not throw
CleanupRemoves_UnlessKillThrew(data) ==
    data.autoShutdown /\ ~(data.status = "running" /\ ~isAlive(data.pid))

\* a record cleanup() removes: "Always remove autoShutdown processes"
CleanupRemoves(data) == data.autoShutdown
\* mutant: every Running record is signalled, ephemeral or not
CleanupKills_AnyRunning(data) == data.status = "running"

\* a record cleanup() sends SIGTERM for
CleanupKills(data) == data.autoShutdown /\ data.status = "running"

\* mutant: the "exit" listener stays registered
removeListeners_OnlySignals(registered) == registered \ {"SIGINT", "SIGTERM"}

\* cleanup(): the three process.removeListener calls
removeListeners(registered) == registered \ {"SIGINT", "SIGTERM", "exit"}

\* cleanup(): what a run does, started by a direct call (event = "") or
\* by cleanupHandler for a termination event
runCleanup(i, event) ==
    LET processes == getCurrentCwdProcesses(i)
        hits(p) == Cardinality({k \in DOMAIN processes :
                       CleanupKills(processes[k]) /\ p \in KillTarget(i, processes[k].pid)})
        \* process.kill(pid, "SIGTERM") throws for a pid that is not alive;
        \* runningProcess.kill does not throw
        throws(data) == running[i][data.pid] = NoHandle /\ ~isAlive(data.pid)
    IN
    /\ handlers' = [handlers EXCEPT ![i] = removeListeners(@)]
    /\ monitoring' = [monitoring EXCEPT ![i] = FALSE]
    /\ config' = [config EXCEPT ![currentCwd[i]] =
                    [k \in {x \in DOMAIN processes : ~CleanupRemoves(processes[x])}
                        |-> processes[k]]]
    /\ procs' = Untrack(procs, {processes[k].proc :
                                   k \in {x \in DOMAIN processes : CleanupRemoves(processes[x])}})
    /\ lastOp' = [NoOp("cleanup") EXCEPT !.inst = i, !.event = event,
                     !.attempts = Cardinality({k \in DOMAIN processes :
                                                  CleanupKills(processes[k])}),
                     !.thrown = Cardinality({k \in DOMAIN processes :
                                    CleanupKills(processes[k]) /\ throws(processes[k])}),
                     !.signalled = [p \in ProcIds |-> hits(p)]]
    /\ UNCHANGED <<running, up, currentCwd, now, scans, writes>>

\* cleanup() called directly (public method)
Cleanup(i) ==
    /\ up[i]
    /\ runCleanup(i, "")
    /\ UNCHANGED cleanupRuns

\* A termination event reaches the supervisor's process.  While
\* cleanupHandler is registered for it, it runs cleanup(); the process goes
\* on running after a handled signal, and ends after "exit" (the step
\* Crash).  With no listener the signal's default action ends the process.
TerminationEvent(i, event) ==
    /\ up[i]
    /\ IF event \in handlers[i]
       THEN /\ runCleanup(i, event)
            /\ cleanupRuns' = [cleanupRuns EXCEPT ![i] = @ + 1]
       ELSE /\ ProcessEnds(i)
            /\ lastOp' = [NoOp("unhandled") EXCEPT !.inst = i, !.event = event]

\* ----------------------------------------------------------------- List
\* A directory path as the sequence of its characters
sep == "/"
PathChars == {sep, "a", "b"}

RECURSIVE SeqsUpTo(_, _)
\* the sequences over S of length 0..n
SeqsUpTo(S, n) ==
    IF n = 0 THEN {<<>>}
    ELSE LET shorter == SeqsUpTo(S, n - 1)
         IN shorter \cup {Append(q, c) : q \in {x \in shorter : Len(x) = n - 1}, c \in S}

\* the absolute paths process.cwd() and path.resolve() return: "/", or
\* non-empty segments each preceded by one separator
Paths ==
    {q \in SeqsUpTo(PathChars, MaxPathLen) :
        /\ Len(q) >= 1 /\ q[1] = sep
        /\ (Len(q) > 1 => q[Len(q)] # sep)
        /\ \A n \in 1..(Len(q) - 1) : ~(q[n] = sep /\ q[n + 1] = sep)}

\* String.prototype.startsWith
startsWith(str, prefix) ==
    Len(prefix) <= Len(str) /\ SubSeq(str, 1, Len(prefix)) = prefix

\* getAllProcessesInDirectory: the test that selects a partition
shouldInclude(cwd, targetCwd, includeSubdirectories) ==
    IF includeSubdirectories
    THEN cwd = targetCwd \/ startsWith(cwd, targetCwd \o <<sep>>)
    ELSE cwd = targetCwd

\* getAllProcessesInDirectory: the result, keyed by `${cwd}::${processKey}`
getAllProcessesInDirectory(store, targetCwd, includeSubdirectories) ==
    LET keys == {e \in UNION {{<<cwd, k>> : k \in DOMAIN store[cwd]} : cwd \in DOMAIN store} :
                    shouldInclude(e[1], targetCwd, includeSubdirectories)}
    IN [e \in keys |-> store[e[1]][e[2]]]

\* List(currentAndSubdirs) / List(currentOnly) called on instance i
ListProcesses(i, includeSubdirectories) ==
    /\ up[i]
    /\ lastOp' = [NoOp("list") EXCEPT !.inst = i, !.ok = includeSubdirectories,
                     !.ret = getAllProcessesInDirectory(config, currentCwd[i],
                                                        includeSubdirectories)]
    /\ UNCHANGED <<config, running, up, currentCwd, monitoring, handlers, procs, now,
                   cleanupRuns, scans, writes>>

\* -------------------------------------------------------------- getLogs
\* The text of a log file as the sequence of its characters
nl == "\n"
LogChars == {"x", "y", nl}
LogContents == SeqsUpTo(LogChars, MaxLogLen)

\* the two fixed texts getProcessLogs returns, each as one piece of text
NoLogs == <<"No logs available for this process">>
ErrorReadingLogs == <<"Error reading logs: ">>

RECURSIVE split(_, _)
\* String.prototype.split(separator) for a one-character separator
split(str, ch) ==
    IF \A n \in 1..Len(str) : str[n] # ch
    THEN <<str>>
    ELSE LET n == CHOOSE m \in 1..Len(str) :
                     str[m] = ch /\ \A l \in 1..(m - 1) : str[l] # ch
         IN <<SubSeq(str, 1, n - 1)>> \o split(SubSeq(str, n + 1, Len(str)), ch)

\* Array.prototype.slice(start)
slice(arr, start) ==
    LET k == IF start < 0
             THEN (IF Len(arr) + start > 0 THEN Len(arr) + start ELSE 0)
             ELSE (IF start < Len(arr) THEN start ELSE Len(arr))
    IN SubSeq(arr, k + 1, Len(arr))

RECURSIVE join(_, _)
\* Array.prototype.join(separator) of an array of strings
join(arr, ch) ==
    IF arr = <<>> THEN <<>>
    ELSE IF Len(arr) = 1 THEN arr[1]
    ELSE arr[1] \o <<ch>> \o join(Tail(arr), ch)

\* getProcessLogs: the text returned for the content read from the file
tailOfLog(content, tailLength) ==
    LET lines == SelectSeq(split(content, nl), LAMBDA line : line # <<>>)
    IN join(slice(lines, 0 - tailLength), nl)

\* the log file Start opened for spawned process p
LogFileOf(p) == actualLogFilePath(procs[p].autoShutdown, procs[p].pid, procs[p].key[2])

\* the log files created so far: no operation deletes or renames one
LogFiles == {LogFileOf(p) : p \in ProcIds}

\* mutant: the existsSync test is missing, a missing file reads as empty
getProcessLogsResult_NoExistsTest(found, exists, readable, content, tailLength) ==
    IF ~found THEN NoLogs
    ELSE IF ~readable THEN ErrorReadingLogs
    ELSE tailOfLog(content, tailLength)

\* getProcessLogs: the value returned
getProcessLogsResult(found, exists, readable, content, tailLength) ==
    IF ~found \/ ~exists THEN NoLogs
    ELSE IF ~readable THEN ErrorReadingLogs
    ELSE tailOfLog(content, tailLength)

\* getProcessLogs(pid, tailLength).  The state of the file system is an
\* input: whether the log file of the record exists (a file the program
\* created may have been deleted by hand), whether readFile succeeds, and
\* the text it returns.  existsSync is not called when no record is found.
GetLogs(i, pid, exists, readable, content, tailLength) ==
    LET found == FindByPid(pid) # {}
    IN
    /\ up[i]
    /\ ~found => ~exists
    /\ exists => \E e \in FindByPid(pid) : RecordOf(e).logFile \in LogFiles
    /\ (~found \/ ~exists) => (readable /\ content = <<>>)
    /\ ~readable => content = <<>>
    /\ lastOp' = [NoOp("logs") EXCEPT
                     !.inst = i, !.pid = pid,
                     !.ok = found /\ exists /\ readable,
                     !.content = content, !.tailLength = tailLength,
                     !.exists = exists,
                     !.ret = getProcessLogsResult(found, exists, readable, content,
                                                  tailLength)]
    /\ UNCHANGED <<config, running, up, currentCwd, monitoring, handlers, procs, now,
                   cleanupRuns, scans, writes>>

\* One supervisor at a time; after a crash the next one is constructed on
\* the registry the crashed one left.  startProcess is called without
\* the cwd argument and with process.env.CWD unset (the record field cwd is
\* never read by any operation).
Next ==
    \/ Tick
    \/ \E i \in Solo, d \in Dirs : Construct(i, d)
    \/ \E i \in Solo : Crash(i)
    \/ \E i \in Solo, c \in Commands, a \in BOOLEAN, pid \in Pids :
          Start(i, c, a, "", "", pid)
    \/ \E i \in Solo, c \in Commands, a \in BOOLEAN : StartFailure(i, c, a)
    \/ \E p \in ProcIds, c \in ExitCodes \cup {NullCode} : ProcDie(p, c)
    \/ \E p \in ProcIds : ExitNotification(p)
    \/ \E p \in ProcIds : CatchRejection(p)
    \/ \E i \in Solo : CheckHealth(i)
    \/ \E i \in Solo, pid \in Pids : StopNotFound(i, pid)
    \/ \E i \in Solo, pid \in Pids, e \in AllEntries, o \in KillOutcomes : Stop(i, pid, e, o)
    \/ \E i \in Solo : Cleanup(i)

Spec == Init /\ [][Next]_vars

\* The lifecycle of the processes of one directory: the steps of Next for
\* supervisors rooted at "/a".  The event loop of a running supervisor
\* delivers every pending exit notification.
LiveNext ==
    \/ Tick
    \/ \E i \in Solo : Construct(i, "/a")
    \/ \E i \in Solo : Crash(i)
    \/ \E i \in Solo, c \in Commands, a \in BOOLEAN, pid \in Pids :
          Start(i, c, a, "", "", pid)
    \/ \E p \in ProcIds, c \in ExitCodes \cup {NullCode} : ProcDie(p, c)
    \/ \E p \in ProcIds : ExitNotification(p)
    \/ \E p \in ProcIds : CatchRejection(p)
    \/ \E i \in Solo : CheckHealth(i)
    \/ \E i \in Solo, pid \in Pids, e \in AllEntries : Stop(i, pid, e, "ok")
    \/ \E i \in Solo : Cleanup(i)

LiveSpec ==
    Init /\ [][LiveNext]_vars /\ \A p \in 1..MaxProcs : WF_vars(ExitNotification(p))

\* The shutdown of a supervisor: termination events reach its process,
\* repeatedly and in any order, and cleanup() is also called directly.
SignalNext ==
    \/ \E i \in Solo, d \in Dirs : Construct(i, d)
    \/ \E i \in Solo : Crash(i)
    \/ \E i \in Solo, c \in Commands, a \in BOOLEAN, pid \in Pids :
          Start(i, c, a, "", "", pid)
    \/ \E p \in ProcIds, c \in ExitCodes \cup {NullCode} : ProcDie(p, c)
    \/ \E p \in ProcIds : ExitNotification(p)
    \/ \E i \in Solo, event \in TerminationEvents : TerminationEvent(i, event)
    \/ \E i \in Solo : Cleanup(i)

SignalSpec == Init /\ [][SignalNext]_vars

\* startProcess with and without the cwd argument (an absolute path), with
\* process.env.CWD unset or set, by supervisors constructed in any directory
CwdNext ==
    \/ Tick
    \/ \E i \in Solo, d \in Dirs : Construct(i, d)
    \/ \E i \in Solo : Crash(i)
    \/ \E i \in Solo, c \in Commands, a \in BOOLEAN, pid \in Pids :
          \E cwd \in Dirs \cup {""}, envCwd \in Dirs \cup {""} :
             Start(i, c, a, cwd, envCwd, pid)
    \/ \E p \in ProcIds, c \in ExitCodes \cup {NullCode} : ProcDie(p, c)
    \/ \E p \in ProcIds : ExitNotification(p)
    \/ \E i \in Solo : CheckHealth(i)

CwdSpec == Init /\ [][CwdNext]_vars

\* Two supervisors (the server and a CLI invocation, or two servers) run
\* at the same time on one registry; the only operation called is
\* startProcess, and the processes end when they end.
StartsNext ==
    \/ Tick
    \/ \E i \in Insts, d \in Dirs : Construct(i, d)
    \/ \E i \in Insts, c \in Commands, a \in BOOLEAN, pid \in Pids :
          Start(i, c, a, "", "", pid)
    \/ \E p \in ProcIds, c \in ExitCodes \cup {NullCode} : ProcDie(p, c)
    \/ \E p \in ProcIds : ExitNotification(p)
    \/ \E p \in ProcIds : CatchRejection(p)

StartsSpec == Init /\ [][StartsNext]_vars

\* Two supervisors run at the same time on one registry and call
\* startProcess, endProcess and checkProcessHealth.
SharedNext ==
    \/ Tick
    \/ \E i \in Insts, d \in Dirs : Construct(i, d)
    \/ \E i \in Insts, c \in Commands, a \in BOOLEAN, pid \in Pids :
          Start(i, c, a, "", "", pid)
    \/ \E p \in ProcIds, c \in ExitCodes \cup {NullCode} : ProcDie(p, c)
    \/ \E p \in ProcIds : ExitNotification(p)
    \/ \E i \in Insts : CheckHealth(i)
    \/ \E i \in Insts, pid \in Pids : StopNotFound(i, pid)
    \/ \E i \in Insts, pid \in Pids, e \in AllEntries : Stop(i, pid, e, "ok")

SharedSpec == Init /\ [][SharedNext]_vars

\* The listing, on every registry of at most MaxPartitions partitions keyed
\* by paths of at most MaxPathLen characters, each holding one record, for
\* a supervisor constructed in any such path.
ListInit ==
    /\ now = 0
    /\ \E keys \in {K \in SUBSET Paths : Cardinality(K) <= MaxPartitions} :
          config = [d \in keys |->
                       [k \in {generateProcessKey("sleep", 0)} |->
                           NewProcessData(1, "sleep", d, FALSE, 1)]]
    /\ \E t \in Paths : currentCwd = [i \in Insts |-> t]
    /\ up = [i \in Insts |-> i \in Solo]
    /\ monitoring = [i \in Insts |-> i \in Solo]
    /\ handlers = [i \in Insts |-> IF i \in Solo THEN TerminationEvents ELSE {}]
    /\ running = [i \in Insts |-> [pid \in Pids |-> NoHandle]]
    /\ procs = <<>>
    /\ cleanupRuns = [i \in Insts |-> 0]
    /\ scans = [i \in Insts |-> <<>>]
    /\ writes = [i \in Insts |-> <<>>]
    /\ lastOp = NoOp("init")

ListNext ==
    \E i \in Solo, includeSubdirectories \in BOOLEAN : ListProcesses(i, includeSubdirectories)

ListSpec == ListInit /\ [][ListNext]_vars

\* getProcessLogs on the records of a supervisor, for every text of at most
\* MaxLogLen characters in the log file and every tailLength in 0..MaxTail
LogNext ==
    \/ \E i \in Solo : Construct(i, "/a")
    \/ \E i \in Solo, c \in Commands, a \in BOOLEAN, pid \in Pids :
          Start(i, c, a, "", "", pid)
    \/ \E i \in Solo, pid \in Pids, exists \in BOOLEAN, readable \in BOOLEAN :
          \E content \in LogContents, tailLength \in 0..MaxTail :
             GetLogs(i, pid, exists, readable, content, tailLength)
    \/ \E i \in Solo, pid \in Pids, e \in AllEntries : Stop(i, pid, e, "ok")

LogSpec == Init /\ [][LogNext]_vars

\* The health scan as the two parts of its run, in one supervisor: the
\* timer tick and the other callbacks of the supervisor start when the event
\* loop lets them; the processes end when they end.
ScanNext ==
    \/ Tick
    \/ \E i \in Solo : Construct(i, "/a")
    \/ \E i \in Solo, c \in Commands, a \in BOOLEAN, pid \in Pids :
          callbackMayStart(i) /\ Start(i, c, a, "", "", pid)
    \/ \E p \in ProcIds, c \in ExitCodes \cup {NullCode} : ProcDie(p, c)
    \/ \E p \in ProcIds :
          procs[p].inst # 0 /\ callbackMayStart(procs[p].inst) /\ ExitNotification(p)
    \/ \E i \in Solo, pid \in Pids, e \in AllEntries :
          callbackMayStart(i) /\ Stop(i, pid, e, "ok")
    \/ \E i \in Solo : callbackMayStart(i) /\ Cleanup(i)
    \/ \E i \in Solo : HealthScanBegin(i)
    \/ \E i \in Solo : HealthScanEnd(i)

ScanSpec == Init /\ [][ScanNext]_vars

\* A long-lived supervisor (the server) and short-lived ones (CLI
\* invocations: new ProcessManager(), one command, process.exit) rooted at
\* the same directory.  process.exit emits "exit", for which the constructor
\* registered cleanupHandler; then the process is gone.
CliNext ==
    \/ Tick
    \/ \E i \in Insts : Construct(i, "/a")
    \/ \E i \in Insts, c \in Commands, a \in BOOLEAN, pid \in Pids :
          Start(i, c, a, "", "", pid)
    \/ \E p \in ProcIds, c \in ExitCodes \cup {NullCode} : ProcDie(p, c)
    \/ \E p \in ProcIds : ExitNotification(p)
    \/ \E i \in Insts : TerminationEvent(i, "exit")
    \/ \E i \in Insts : Crash(i)

CliSpec == Init /\ [][CliNext]_vars

\* Two supervisors rooted at one directory call startProcess and
\* endProcess; each runs one call at a time, and the two OS processes
\* run side by side.
RmwNext ==
    \/ Tick
    \/ \E i \in Insts : Construct(i, "/a")
    \/ \E i \in Insts, c \in Commands, a \in BOOLEAN, pid \in Pids :
          StartBegin(i, c, a, pid)
    \/ \E i \in Insts, pid \in Pids, e \in AllEntries : StopBegin(i, pid, e)
    \/ \E i \in Insts : EndWrite(i)

RmwSpec == Init /\ [][RmwNext]_vars

\* ------------------------------------------------------------ properties
Exited(p, codes) == p \in ProcIds /\ ~procs[p].alive /\ procs[p].code \in codes

\* C1: the record of an ephemeral process that exited with code 0 is never
\* Crashed (and eventually Stopped).
C1_ExitZeroNeverCrashed ==
    \A e \in AllEntries :
        (RecordOf(e).autoShutdown /\ Exited(RecordOf(e).proc, {0}))
        => RecordOf(e).status # "crashed"

HasRecord(p) == \E e \in AllEntries : RecordOf(e).proc = p

\* the exit notification of ephemeral process p, which exited with a
\* nonzero code, is still to come
NonzeroExitPending(p) ==
    /\ Exited(p, ExitCodes \ {0})
    /\ procs[p].autoShutdown /\ procs[p].exitPending

CrashedWithCode(p) ==
    \E e \in AllEntries :
        /\ RecordOf(e).proc = p
        /\ RecordOf(e).status = "crashed"
        /\ RecordOf(e).errorOutput.code = procs[p].code

\* C2: an ephemeral process that exits with a nonzero code gets status
\* Crashed with the exit code in errorOutput, unless its record is deleted
\* or its supervisor is gone first; CheckHealth may have run in between.
C2_NonzeroExitEventuallyCrashed ==
    \A p \in 1..MaxProcs :
        NonzeroExitPending(p) ~> (CrashedWithCode(p) \/ ~HasRecord(p) \/ procs[p].inst = 0)

\* C2 witness: the exit notification has just set Crashed, with the exit
\* code, on a record that CheckHealth could already have set to Stopped.
C2_Witness ==
    /\ lastOp.op = "exit"
    /\ Exited(lastOp.ret, ExitCodes \ {0})
    /\ CrashedWithCode(lastOp.ret)
    /\ running[lastOp.inst][lastOp.pid] = NoHandle
KnownPid(pid) == \E d \in Dirs : \E k \in DOMAIN config[d] : config[d][k].pid = pid
Terminal(status) == status \in {"stopped", "crashed"}
NoSignal(op) == \A p \in DOMAIN op.signalled : op.signalled[p] = 0

\* C3: once a record is Stopped or Crashed, no step changes its status; it
\* can only be deleted (or its key be taken by the record of a new process).
C3_TerminalStatusIsFinal ==
    [][\A e \in AllEntries :
          (Terminal(RecordOf(e).status) /\ e \in AllEntries'
             /\ RecordOf(e)'.proc = RecordOf(e).proc)
          => RecordOf(e)'.status = RecordOf(e).status]_vars

\* C4: a Stop that finds a record with the pid leaves that record absent
\* from the registry, and Stop on a known pid that is dead returns true.
C4_StopDeletesFoundRecord ==
    [][(lastOp'.op = "stop" /\ KnownPid(lastOp'.pid))
          => /\ lastOp'.key \in DOMAIN config[lastOp'.dir]
             /\ config[lastOp'.dir][lastOp'.key].pid = lastOp'.pid
             /\ <<lastOp'.dir, lastOp'.key>> \notin AllEntries'
             /\ (~isAlive(lastOp'.pid) => lastOp'.ok)]_vars

\* C4 witness: Stop has just removed the record of a dead pid, returned
\* true and sent no signal.
C4_Witness ==
    /\ lastOp.op = "stop" /\ lastOp.dir # "" /\ lastOp.ok
    /\ ~isAlive(lastOp.pid) /\ NoSignal(lastOp)
    /\ \E p \in ProcIds : procs[p].pid = lastOp.pid /\ ~HasRecord(p)

\* C5 as claimed: whenever a record with the pid exists, Stop returns true.
C5_StopTrueWheneverRecordExists ==
    [][(lastOp'.op = "stop" /\ KnownPid(lastOp'.pid)) => lastOp'.ok]_vars

\* C5 amended: with a record present, Stop returns false exactly when the
\* probe found the pid alive, the pid was not in the handle table, and the
\* SIGTERM sent by pid was not delivered.
C5_StopFalseOnlyOnFailedKill ==
    [][(lastOp'.op = "stop" /\ KnownPid(lastOp'.pid))
          => (lastOp'.ok <=> ~(/\ isAlive(lastOp'.pid)
                               /\ running[lastOp'.inst][lastOp'.pid] = NoHandle
                               /\ NoSignal(lastOp')))]_vars

\* C5 witness: Stop found a record, its direct SIGTERM failed, it returned
\* false and the record is gone.
C5_Witness ==
    /\ lastOp.op = "stop" /\ lastOp.dir # "" /\ ~lastOp.ok
    /\ <<lastOp.dir, lastOp.key>> \notin AllEntries

\* C6: Stop on a pid no record has returns false, signals nothing and
\* leaves the registry, the handle tables and the processes as they were.
C6_StopUnknownPidNoEffect ==
    [][(lastOp'.op = "stop" /\ ~KnownPid(lastOp'.pid))
          => /\ ~lastOp'.ok
             /\ NoSignal(lastOp')
             /\ config' = config /\ running' = running /\ procs' = procs]_vars

\* C6 witness: Stop returned false for a pid that no record has although
\* a live process holds it.
C6_Witness ==
    /\ lastOp.op = "stop" /\ lastOp.dir = "" /\ ~lastOp.ok
    /\ isAlive(lastOp.pid) /\ ~KnownPid(lastOp.pid)

\* C7: after Cleanup the caller's partition has no autoShutdown record,
\* every persistent record is unchanged and its process got no signal.
C7_CleanupFrame ==
    [][lastOp'.op = "cleanup"
          => /\ \A k \in DOMAIN config'[currentCwd[lastOp'.inst]] :
                   ~config'[currentCwd[lastOp'.inst]][k].autoShutdown
             /\ \A e \in AllEntries : ~RecordOf(e).autoShutdown =>
                   /\ e \in AllEntries' /\ RecordOf(e)' = RecordOf(e)
                   /\ lastOp'.signalled[RecordOf(e).proc] = 0]_vars

\* C8: after the constructor's reconciliation an autoShutdown record remains
\* only if its pid is alive and its status Running; persistent records,
\* stale or not, are exactly the ones that were there.
C8_ReconciliationResult ==
    [][lastOp'.op = "construct"
          => /\ \A e \in AllEntries' : RecordOf(e)'.autoShutdown =>
                   (isAlive(RecordOf(e)'.pid) /\ RecordOf(e)'.status = "running")
             /\ \A e \in AllEntries : ~RecordOf(e).autoShutdown =>
                   (e \in AllEntries' /\ RecordOf(e)' = RecordOf(e))
             /\ \A e \in AllEntries' : e \in AllEntries /\ RecordOf(e)' = RecordOf(e)]_vars

\* C8 witness: a constructor has just removed a stale autoShutdown record
\* and kept a persistent record whose pid is dead.
C8_Witness ==
    /\ lastOp.op = "construct" /\ lastOp.ret > 0
    /\ \E e \in AllEntries : ~RecordOf(e).autoShutdown /\ ~isAlive(RecordOf(e).pid)

\* C9: a Start that returns yields a positive pid and a Running record
\* with that pid, command and flag in the caller's partition; from an
\* empty partition List(currentOnly) then shows exactly one record.
C9_StartInsertsRunningRecord ==
    [][(lastOp'.op = "start" /\ lastOp'.ok)
          => LET cwd == currentCwd[lastOp'.inst] IN
             /\ lastOp'.ret > 0
             /\ \E k \in DOMAIN config'[cwd] :
                  /\ config'[cwd][k].pid = lastOp'.ret
                  /\ config'[cwd][k].command = lastOp'.command
                  /\ config'[cwd][k].autoShutdown = lastOp'.autoShutdown
                  /\ config'[cwd][k].status = "running"
             /\ (DOMAIN config[cwd] = {} => Cardinality(DOMAIN config'[cwd]) = 1)]_vars

\* C9 witness: Start has just returned on a partition that now lists one
\* Running record, with the returned pid.
C9_Witness ==
    /\ lastOp.op = "start" /\ lastOp.ok
    /\ Cardinality(DOMAIN getCurrentCwdProcesses(lastOp.inst)) = 1
    /\ \A k \in DOMAIN getCurrentCwdProcesses(lastOp.inst) :
          /\ getCurrentCwdProcesses(lastOp.inst)[k].pid = lastOp.ret
          /\ getCurrentCwdProcesses(lastOp.inst)[k].status = "running"

\* C10 as claimed: a persistent record never has status Crashed.
C10_PersistentNeverCrashed ==
    \A e \in AllEntries : ~RecordOf(e).autoShutdown => RecordOf(e).status # "crashed"

\* C10 amended: a persistent record becomes Crashed only by the rejection
\* handler finding it Running, or by the exit notification of an ephemeral
\* process that has the same process key; never by CheckHealth.
C10_PersistentCrashedOnlyByHandlers ==
    [][\A e \in AllEntries' :
          (/\ ~RecordOf(e)'.autoShutdown /\ RecordOf(e)'.status = "crashed"
           /\ ~(e \in AllEntries /\ RecordOf(e).status = "crashed"))
          => /\ e \in AllEntries
             /\ \/ lastOp'.op = "catch" /\ RecordOf(e).status = "running"
                \/ /\ lastOp'.op = "exit"
                   /\ procs[lastOp'.ret].autoShutdown
                   /\ procs[lastOp'.ret].key = e[2]]_vars

\* C10 witness: a persistent record is Crashed, written by the rejection
\* handler of its own process, which ended with a nonzero code.
C10_Witness ==
    \E e \in AllEntries :
        /\ ~RecordOf(e).autoShutdown /\ RecordOf(e).status = "crashed"
        /\ RecordOf(e).errorOutput.kind = "failed"
        /\ procs[RecordOf(e).proc].code = RecordOf(e).errorOutput.code
        /\ ~procs[RecordOf(e).proc].autoShutdown

\* the process a record was written for has ended
ProcessDead(data) == ~procs[data.proc].alive

\* C11: a CheckHealth of a running supervisor sets every Running record
\* whose process is dead, in whatever partition, to Stopped.
C11_HealthCoversAllPartitions ==
    [][lastOp'.op = "health"
          => \A e \in AllEntries :
                (RecordOf(e).status = "running" /\ ProcessDead(RecordOf(e)))
                => (e \in AllEntries' /\ RecordOf(e)'.status = "stopped")]_vars

\* C12: Stop deletes the record it found from the partition that stores
\* it, whichever directory the caller is rooted at, leaves every other
\* record of every partition as it was, and its SIGTERM by pid reaches the
\* process holding the pid.
C12_StopAcrossPartitions ==
    [][(lastOp'.op = "stop" /\ KnownPid(lastOp'.pid))
          => /\ lastOp'.key \in DOMAIN config[lastOp'.dir]
             /\ config[lastOp'.dir][lastOp'.key].pid = lastOp'.pid
             /\ config' = [config EXCEPT ![lastOp'.dir] = Del(@, lastOp'.key)]
             /\ (/\ isAlive(lastOp'.pid)
                 /\ running[lastOp'.inst][lastOp'.pid] = NoHandle
                 /\ lastOp'.ok)
                => \A p \in AliveAt(lastOp'.pid) : lastOp'.signalled[p] = 1]_vars

\* C12 witness: an instance rooted at one directory has just stopped a
\* live process whose record was in the partition of another directory,
\* and its own partition still holds a record.
C12_Witness ==
    /\ lastOp.op = "stop" /\ lastOp.ok
    /\ lastOp.dir # "" /\ lastOp.dir # currentCwd[lastOp.inst]
    /\ \E p \in ProcIds : lastOp.signalled[p] = 1
    /\ <<lastOp.dir, lastOp.key>> \notin AllEntries
    /\ DOMAIN getCurrentCwdProcesses(lastOp.inst) # {}

\* C14: a Start that returns uses a key that no record of the partition
\* has, so the partition grows by exactly one record.
C14_StartNeverOverwrites ==
    [][(lastOp'.op = "start" /\ lastOp'.ok)
          => /\ lastOp'.key \notin DOMAIN config[lastOp'.dir]
             /\ Cardinality(DOMAIN config'[lastOp'.dir])
                  = Cardinality(DOMAIN config[lastOp'.dir]) + 1]_vars

\* C17: a persistent record is left as it is by Cleanup, by the end of
\* the supervisor and by the construction of the next one, its process
\* gets no signal from them, and a Stop of its pid returns true.
C17_PersistentSurvivesRestart ==
    [][\A e \in AllEntries : ~RecordOf(e).autoShutdown =>
          /\ lastOp'.op \in {"cleanup", "crash", "construct"}
                => /\ e \in AllEntries' /\ RecordOf(e)' = RecordOf(e)
                   /\ lastOp'.op = "cleanup" => lastOp'.signalled[RecordOf(e).proc] = 0
          /\ (lastOp'.op = "stop" /\ lastOp'.pid = RecordOf(e).pid) => lastOp'.ok]_vars

\* C13: of the termination events delivered to an instance, the first one
\* delivered while cleanup() has not run runs it and leaves no listener
\* registered; no later event runs it, so it runs at most once by events.
C13_CleanupOncePerTermination ==
    [][\A i \in Insts :
          /\ cleanupRuns'[i] <= 1
          /\ (lastOp'.event # "" /\ lastOp'.inst = i)
                => /\ (lastOp'.op = "cleanup") <=> monitoring[i]
                   /\ handlers'[i] = {}]_vars

\* C13 witness: after a first event ran cleanup(), a second event has been
\* delivered to the same process and did not run it again.
C13_Witness ==
    /\ lastOp.op = "unhandled" /\ lastOp.event \in TerminationEvents
    /\ cleanupRuns[lastOp.inst] = 1
    /\ \E p \in ProcIds : procs[p].autoShutdown /\ ~HasRecord(p)

Listed(i) == {getCurrentCwdProcesses(i)[k].proc : k \in DOMAIN getCurrentCwdProcesses(i)}

\* the spawned processes that instance i started
StartedBy(i) == {p \in ProcIds : procs[p].inst = i}

\* C16: two instances rooted at distinct directories each list, under
\* List(currentOnly), exactly the processes they started themselves.
C16_EachListsExactlyItsOwn ==
    (up[1] /\ up[2] /\ currentCwd[1] # currentCwd[2])
    => \A i \in Insts : Listed(i) = StartedBy(i)

Segments(path) == SelectSeq(split(path, sep), LAMBDA seg : seg # <<>>)

\* path cwd is directory t or lies below it
SelfOrDescendant(cwd, t) ==
    Len(Segments(t)) <= Len(Segments(cwd))
    /\ SubSeq(Segments(cwd), 1, Len(Segments(t))) = Segments(t)

\* C19: List(currentAndSubdirs) returns exactly the records of the
\* partitions whose key is the current directory or a descendant of it.
C19_ListCoversDescendants ==
    [][(lastOp'.op = "list" /\ lastOp'.ok)
          => /\ DOMAIN lastOp'.ret =
                  UNION {{<<cwd, k>> : k \in DOMAIN config[cwd]} :
                            cwd \in {d \in DOMAIN config :
                                        SelfOrDescendant(d, currentCwd[lastOp'.inst])}}
             /\ \A e \in DOMAIN lastOp'.ret : lastOp'.ret[e] = config[e[1]][e[2]]]_vars

\* the non-empty lines of a text, in order
NonEmptyLines(content) == SelectSeq(split(content, nl), LAMBDA line : line # <<>>)

\* C20: getLogs on an existing log file returns the last min(maxLines, n)
\* of the file's n non-empty lines, in order, joined by newline.
C20_LogsAreLastLines ==
    [][(lastOp'.op = "logs" /\ lastOp'.ok)
          => LET lines == NonEmptyLines(lastOp'.content)
                 n == Len(lines)
                 m == IF lastOp'.tailLength < n THEN lastOp'.tailLength ELSE n
             IN lastOp'.ret = join(SubSeq(lines, n - m + 1, n), nl)]_vars

\* C21: getProcessLogs never throws and changes nothing; when no record of
\* any partition has the pid, or the log file of the record is missing, it
\* returns the text "No logs available for this process" -- also after
\* endProcess removed the only record of a process whose log file exists.
C21_LogsSentinelWithoutRecordOrFile ==
    [][lastOp'.op = "logs"
       => /\ ~lastOp'.raised
          /\ UNCHANGED <<config, running, procs>>
          /\ (~KnownPid(lastOp'.pid) \/ ~lastOp'.exists) => lastOp'.ret = NoLogs]_vars

\* getProcessLogs answered with the fixed text for the pid of a live
\* process whose record endProcess removed and whose log file exists
C21_Witness ==
    /\ lastOp.op = "logs" /\ lastOp.ret = NoLogs /\ ~KnownPid(lastOp.pid)
    /\ \E p \in ProcIds :
          /\ procs[p].pid = lastOp.pid /\ procs[p].alive
          /\ ~HasRecord(p) /\ LogFileOf(p) \in LogFiles

\* C22: the logFile of every record, of an ephemeral or of a persistent
\* process, is the path built from the record's own pid; a path built from
\* a timestamp is never the one stored.
C22_LogFileNamedAfterPid ==
    \A e \in AllEntries : RecordOf(e).logFile = getLogFilePath(RecordOf(e).pid)

\* C23: when the spawn returns no pid, startProcess throws and leaves the
\* tracked state as it was: no record in any partition, no entry in the
\* handle table, for the ephemeral and for the persistent branch.
C23_StartFailureHasNoEffect ==
    [][(lastOp'.op = "start" /\ lastOp'.pid = NoPid)
       => /\ lastOp'.raised /\ ~lastOp'.ok
          /\ UNCHANGED <<config, running, procs, handlers, monitoring>>]_vars

\* a persistent start failed in a supervisor that tracks other processes
C23_Witness ==
    /\ lastOp.op = "start" /\ lastOp.pid = NoPid /\ lastOp.raised
    /\ ~lastOp.autoShutdown
    /\ \E e \in AllEntries : RecordOf(e).status = "running"
    /\ \E pid \in Pids : running[lastOp.inst][pid] # NoHandle

\* spawned process p has, in the partition of instance i, a record written
\* for it that is autoShutdown and Running
OwedSigterm(i, p) ==
    \E k \in DOMAIN config[currentCwd[i]] :
        LET data == config[currentCwd[i]][k]
        IN data.proc = p /\ data.autoShutdown /\ data.status = "running"

\* C24: cleanup() signals only the processes whose record in the calling
\* partition is autoShutdown and Running, each of them exactly once; no
\* process is signalled for a Stopped, Crashed or persistent record.
C24_CleanupSignalsOnlyItsEphemerals ==
    [][lastOp'.op = "cleanup"
       => \A p \in ProcIds :
             /\ lastOp'.signalled[p] <= 1
             /\ lastOp'.signalled[p] >= 1 => OwedSigterm(lastOp'.inst, p)
             /\ (OwedSigterm(lastOp'.inst, p) /\ procs[p].alive)
                   => lastOp'.signalled[p] >= 1]_vars

\* C25: checkProcessHealth changes nothing but the Running records of the
\* instance's partition whose probe fails: they become Stopped (never
\* Crashed) and their handle is dropped.  Running records whose probe
\* succeeds, Stopped and Crashed records and the records of other
\* partitions are as before; no record is added or deleted.
C25_HealthOnlyStopsDeadRunning ==
    [][lastOp'.op = "health"
       => LET i == lastOp'.inst
              probeFails(e) == /\ e[1] = currentCwd[i]
                               /\ RecordOf(e).status = "running"
                               /\ ~isAlive(RecordOf(e).pid)
          IN
          /\ \A d \in Dirs : DOMAIN config'[d] = DOMAIN config[d]
          /\ \A e \in AllEntries :
                IF probeFails(e)
                THEN /\ config'[e[1]][e[2]] = [RecordOf(e) EXCEPT !.status = "stopped"]
                     /\ running'[i][RecordOf(e).pid] = NoHandle
                ELSE config'[e[1]][e[2]] = RecordOf(e)
          /\ \A j \in Insts, pid \in Pids :
                running'[j][pid] # running[j][pid]
                => (j = i /\ \E e \in AllEntries : probeFails(e) /\ RecordOf(e).pid = pid)
          /\ UNCHANGED <<procs, up, currentCwd, monitoring, handlers>>]_vars

\* a scan has set the record of a dead persistent process to Stopped and
\* left the Running record of a live process of the same partition alone
C25_Witness ==
    /\ lastOp.op = "health"
    /\ \E e, f \in AllEntries :
          /\ e[1] = currentCwd[lastOp.inst] /\ f[1] = e[1]
          /\ ~RecordOf(e).autoShutdown /\ RecordOf(e).status = "stopped"
          /\ ~procs[RecordOf(e).proc].alive
          /\ RecordOf(f).status = "running" /\ procs[RecordOf(f).proc].alive

\* C26: once endProcess or cleanup() has deleted the record of an ephemeral
\* process, the "exit" listener and the rejection handler that run later
\* for that process leave the registry as it is: the record is not
\* created again and no other record is changed.
C26_LateCallbacksLeaveRegistry ==
    [][(/\ lastOp'.op \in {"exit", "catch"}
        /\ procs[lastOp'.ret].untracked)
       => config' = config]_vars

\* C27: a record has an errorOutput exactly when its status is Crashed.
C27_ErrorDetailIffCrashed ==
    \A e \in AllEntries :
        (RecordOf(e).errorOutput # NoError) <=> (RecordOf(e).status = "crashed")

C29_ProbeAndKillErrorsAreContained ==
    [][LET i == lastOp'.inst
       IN
       /\ lastOp'.op \in {"health", "stop", "cleanup", "construct"} => ~lastOp'.raised
       /\ lastOp'.op = "health"
          => \A k \in DOMAIN config'[currentCwd[i]] :
                config'[currentCwd[i]][k].status = "running"
                => AliveAt(config'[currentCwd[i]][k].pid) # {}
       /\ lastOp'.op = "construct"
          => \A d \in Dirs : \A k \in DOMAIN config'[d] :
                config'[d][k].autoShutdown => AliveAt(config'[d][k].pid) # {}
       /\ (lastOp'.op = "stop" /\ KnownPid(lastOp'.pid))
          => lastOp'.key \notin DOMAIN config'[lastOp'.dir]
       /\ lastOp'.op = "cleanup"
          => \A k \in DOMAIN config'[currentCwd[i]] :
                ~config'[currentCwd[i]][k].autoShutdown]_vars

\* cleanup() made two kill calls, one of which threw (the pid was gone),
\* and removed every autoShutdown record of the partition
C29_Witness ==
    /\ lastOp.op = "cleanup" /\ lastOp.attempts = 2 /\ lastOp.thrown = 1
    /\ \E p \in ProcIds : lastOp.signalled[p] = 1
    /\ \A k \in DOMAIN config[currentCwd[lastOp.inst]] :
          ~config[currentCwd[lastOp.inst]][k].autoShutdown

\* C30: checkProcessHealth is single-flight within an instance: at no
\* time are two scans of one instance in progress, and between a scan's
\* read of the partition and its writes no other operation of that
\* instance runs.
C30_HealthScanIsSingleFlight ==
    [][\A i \in Insts :
          /\ Len(scans'[i]) <= 1
          /\ (scans[i] # <<>> /\ lastOp'.inst = i) => lastOp'.op = "health"]_vars

\* a scan has run to its end and has set the record of a persistent
\* process that ended to Stopped
C30_Witness ==
    /\ lastOp.op = "health" /\ scans[lastOp.inst] = <<>>
    /\ \E e \in AllEntries :
          /\ ~RecordOf(e).autoShutdown /\ RecordOf(e).status = "stopped"
          /\ ~procs[RecordOf(e).proc].alive

\* C31: cleanupStaleAutoShutdownProcesses runs exactly once per supervisor
\* instance, in its constructor, and is complete before the first
\* checkProcessHealth of the instance: an instance comes up only by the
\* constructor step, which leaves no stale autoShutdown record and starts
\* the timer; no step of an instance that is up reconciles again, and every
\* health scan is one of an instance that is up.
C31_ReconciliationOnceAtConstruction ==
    [][\A i \in Insts :
          /\ (~up[i] /\ up'[i])
             => /\ lastOp'.op = "construct" /\ lastOp'.inst = i
                /\ \A d \in Dirs : \A k \in DOMAIN config'[d] :
                      ~IsStaleAutoShutdown(config'[d][k])
          /\ (lastOp'.op = "construct" /\ lastOp'.inst = i)
             => ~up[i] /\ up'[i] /\ ~monitoring[i] /\ monitoring'[i]
          /\ (~monitoring[i] /\ monitoring'[i]) => lastOp'.op = "construct"
          /\ (lastOp'.op = "health" /\ lastOp'.inst = i) => up[i]]_vars

\* a constructor has removed a stale autoShutdown record and kept the
\* Running record of a live ephemeral process; the timer is started
C31_Witness ==
    /\ lastOp.op = "construct" /\ lastOp.ret >= 1
    /\ monitoring[lastOp.inst]
    /\ \E e \in AllEntries : RecordOf(e).autoShutdown /\ RecordOf(e).status = "running"

\* C32: each spawned process has a log file of its own: the records of two
\* distinct spawned processes never hold the same logFile.
C32_LogFilePerProcess ==
    \A e, f \in AllEntries :
        RecordOf(e).proc # RecordOf(f).proc => RecordOf(e).logFile # RecordOf(f).logFile

\* C33: cleanup() run by one supervisor instance neither signals an
\* ephemeral process started by another instance that is still running and
\* rooted at the same directory, nor deletes or changes its record.
C33_CleanupSparesOtherInstances ==
    [][lastOp'.op = "cleanup"
       => LET i == lastOp'.inst
          IN \A p \in ProcIds :
                (/\ procs[p].autoShutdown
                 /\ procs[p].inst \notin {0, i}
                 /\ up[procs[p].inst]
                 /\ currentCwd[procs[p].inst] = currentCwd[i])
                => /\ lastOp'.signalled[p] = 0
                   /\ \A e \in AllEntries :
                         RecordOf(e).proc = p
                         => /\ e[2] \in DOMAIN config'[e[1]]
                            /\ config'[e[1]][e[2]] = RecordOf(e)]_vars

\* C34: the constructor of a new supervisor instance deletes no record of
\* a process whose own supervisor is still running; in particular the
\* Stopped or Crashed record of an ephemeral process of a live instance
\* stays, with its errorOutput.
C34_ConstructorSparesLiveInstances ==
    [][lastOp'.op = "construct"
       => \A e \in AllEntries :
             (/\ RecordOf(e).proc \in ProcIds
              /\ procs[RecordOf(e).proc].inst # 0
              /\ up[procs[RecordOf(e).proc].inst])
             => /\ e[2] \in DOMAIN config'[e[1]]
                /\ config'[e[1]][e[2]] = RecordOf(e)]_vars

\* C35: with two supervisor instances working on one partition no update
\* is lost: the write that ends a read-modify-write of one instance changes
\* the presence of its own key only; it neither removes a record the other
\* instance inserted nor creates again a record the other instance deleted.
C35_NoLostUpdate ==
    [][lastOp'.op = "write"
       => \A k \in Commands \X (0..MaxClock) :
             k # lastOp'.key
             => ((k \in DOMAIN config[lastOp'.dir]) <=> (k \in DOMAIN config'[lastOp'.dir]))]_vars

\* C36: after endProcess(pid) has returned true no record of any partition
\* has that pid, also when several records had it.
C36_StopLeavesNoRecordOfPid ==
    [][(lastOp'.op = "stop" /\ lastOp'.ok)
       => \A d \in Dirs : \A k \in DOMAIN config'[d] : config'[d][k].pid # lastOp'.pid]_vars

\* the record endProcess or cleanup() acted on at the last step was
\* written for spawned process p
ActedOnRecordOf(p) ==
    IF lastOp'.op = "stop"
    THEN config[lastOp'.dir][lastOp'.key].proc = p
    ELSE \E k \in DOMAIN config[currentCwd[lastOp'.inst]] :
            LET data == config[currentCwd[lastOp'.inst]][k]
            IN data.proc = p /\ CleanupKills(data)

\* C37: endProcess and cleanup() send SIGTERM only to the OS process that
\* was spawned for the record they act on, never to another process that
\* has the pid of that record.
C37_SignalsOnlyTheRecordsProcess ==
    [][lastOp'.op \in {"stop", "cleanup"}
       => \A p \in DOMAIN lastOp'.signalled :
             lastOp'.signalled[p] >= 1 => ActedOnRecordOf(p)]_vars

\* the keys of the autoShutdown records of partition d of registry cfg
EphemeralKeys(cfg, d) == {k \in DOMAIN cfg[d] : cfg[d][k].autoShutdown}

\* C38: cleanup() is idempotent.  A run of cleanup() leaves no autoShutdown
\* record in the instance's partition; no step other than a start adds an
\* autoShutdown record to a partition, and no step other than a construction
\* changes an instance's directory; and a run of cleanup() on a partition
\* without autoShutdown records sends no signal and leaves the registry
\* as it is.  So a second run, with no start since the first, sends no
\* signal and changes no record.
C38_CleanupIsIdempotent ==
    [][/\ lastOp'.op = "cleanup"
          => EphemeralKeys(config', currentCwd[lastOp'.inst]) = {}
       /\ lastOp'.op # "start"
          => \A d \in Dirs : EphemeralKeys(config', d) \subseteq EphemeralKeys(config, d)
       /\ lastOp'.op \notin {"construct", "crash", "unhandled"}
          => currentCwd' = currentCwd
       /\ (lastOp'.op = "cleanup" /\ EphemeralKeys(config, currentCwd[lastOp'.inst]) = {})
          => /\ config' = config
             /\ \A p \in DOMAIN lastOp'.signalled : lastOp'.signalled[p] = 0]_vars

\* a direct call of cleanup() has returned on an instance whose
\* cleanupHandler had run cleanup() before; the partition held no
\* autoShutdown record, while a process whose record an earlier run deleted
\* is still alive
C38_Witness ==
    /\ lastOp.op = "cleanup"
    /\ lastOp.event = ""
    /\ cleanupRuns[lastOp.inst] >= 1
    /\ lastOp.attempts = 0
    /\ \E p \in ProcIds : procs[p].untracked /\ procs[p].alive /\ procs[p].inst = lastOp.inst
====
